---- MODULE Spec2Model ----
(***************************************************************************)
(* MergedChannels (src/after/merged_chan.rs): an iterator that merges      *)
(* several sorted crossbeam channels.  One consumer thread calls next();   *)
(* one producer thread per channel sends its lines and then drops its      *)
(* Sender (src/after/sca.rs, spawn_jobs).                                  *)
(*                                                                         *)
(* Channel indices are 0-based as in the Rust code: chans is a TLA+        *)
(* sequence, so the channel at Rust index i is chans[i + 1].  Producers    *)
(* are named 0 .. n-1 by their position in the vector handed to new().     *)
(* A head item is the Rust tuple (T, usize) as the record [val, id]; the   *)
(* extra field src is history: the producer the value was received from.   *)
(***************************************************************************)
EXTENDS Integers, Sequences, FiniteSets, Bags, TLC

\* ------------------------------------------------------------- bounds
MaxProducers == 3
MaxItems == 4
MaxVal == 2
MaxDone == 2

\* capacity of each bounded channel (8096 in the program, scaled down)
ChanCap == 2

\* Option<usize>::None for last_picked
None == -1

\* a constructor that starts with channel 0 as the last picked one
NewLastPickedZero == None + 1

\* new(): last_picked: None
NewLastPicked == None

VARIABLES
    sent,         \* sent[p]: the items producer p has sent so far, in order
    closed,       \* closed[p]: producer p has dropped its Sender
    queue,        \* queue[p]: items in producer p's channel
    chans,        \* MergedChannels.chans, as the producers' names
    head_items,   \* MergedChannels.head_items
    last_picked,  \* MergedChannels.last_picked
    pc,           \* where the consumer is: "idle", "fill", "refill", "panicked"
    fill_id,      \* receive_from_all: the loop variable id
    fill_end,     \* receive_from_all: the end of the range 0..chans.len()
    out,          \* history: the values next() has returned, in order
    done,         \* history: how many times next() returned None
    calls,        \* history: how many next() calls have been entered
    pulls,        \* history: recv() calls made by the current next() call
    pulled,       \* history: pulled[p]: recv() calls made on producer p's channel
    last_src      \* history: the producer that supplied the last returned value

vars == <<sent, closed, queue, chans, head_items, last_picked, pc,
          fill_id, fill_end, out, done, calls, pulls, pulled, last_src>>

producerVars == <<sent, closed>>
mergerVars == <<chans, head_items, last_picked, pc, fill_id, fill_end>>
historyVars == <<out, done, calls, pulls, pulled, last_src>>

\* ------------------------------------------------------------ helpers
Vals == 1..MaxVal

Prods == DOMAIN sent

IsSorted(s) == \A i \in 1..(Len(s) - 1) : s[i] <= s[i + 1]

RECURSIVE TotalLen(_, _)
TotalLen(f, S) == IF S = {} THEN 0
                  ELSE LET p == CHOOSE x \in S : TRUE
                       IN Len(f[p]) + TotalLen(f, S \ {p})

RECURSIVE SeqToBag(_)
SeqToBag(s) == IF s = <<>> THEN EmptyBag
               ELSE SetToBag({Head(s)}) (+) SeqToBag(Tail(s))

RECURSIVE BagOfSeqs(_, _)
BagOfSeqs(f, S) == IF S = {} THEN EmptyBag
                  ELSE LET p == CHOOSE x \in S : TRUE
                       IN SeqToBag(f[p]) (+) BagOfSeqs(f, S \ {p})

HeadVals(h) == [i \in 1..Len(h) |-> h[i].val]

\* ------------------------------------------------ the merger's pieces
\* (T, usize)::cmp: lexicographic on the value, then on the channel index
TupleLess(a, b) == a.val < b.val \/ (a.val = b.val /\ a.id < b.id)

TupleEqual(a, b) == a.val = b.val /\ a.id = b.id

\* Vec::truncate(id) in place of swap_remove(id): channel id and all after it go
SwapRemoveTruncate(c, id) == SubSeq(c, 1, id)

\* Vec::remove(id) in place of swap_remove(id): the later channels shift down
SwapRemoveShift(c, id) ==
    [i \in 1..(Len(c) - 1) |-> IF i <= id THEN c[i] ELSE c[i + 1]]

\* a wrong removal: Vec::pop() in place of swap_remove(id)
SwapRemoveLast(c, id) == SubSeq(c, 1, Len(c) - 1)

\* Vec::swap_remove(id): the last element takes position id, the vector shrinks
SwapRemove(c, id) ==
    LET n == Len(c)
    IN  [i \in 1..(n - 1) |-> IF i = id + 1 THEN c[n] ELSE c[i]]

\* a retirement that forgets to re-tag the swapped channel's slot
RetagNothing(h, old_id, id) == h

\* iter_mut().find(|item| item.1 == old_id): the first such slot gets id
Retag(h, old_id, id) ==
    LET hits == {i \in 1..Len(h) : h[i].id = old_id}
    IN  IF hits = {} THEN h
        ELSE LET first == CHOOSE i \in hits : \A j \in hits : i <= j
             IN  [h EXCEPT ![first].id = id]

\* binary_search_by with the comparator reversed (descending order): Ok(_) when
\* a slot equal to item is met
HasEqual(h, item) == \E i \in 1..Len(h) : TupleEqual(h[i], item)

\* an insert at the front, whatever the item
InsertPositionsFront(h, item) == {0}

\* a push in place of the sorted insert
InsertPositionsBack(h, item) == {Len(h)}

\* binary_search_by, Err(ind): an index whose left neighbour (if any) the
\* reversed comparator calls Less (the slot is greater than item) and whose
\* right neighbour (if any) it calls Greater.  On a slice sorted by
\* (value, index) there is exactly one; on any other slice the standard
\* library leaves the result unspecified, and every such index is possible.
InsertPositions(h, item) ==
    {q \in 0..Len(h) : /\ (q = 0 \/ TupleLess(item, h[q]))
                       /\ (q = Len(h) \/ TupleLess(h[q + 1], item))}

\* Vec::insert(ind, item)
InsertAt(h, q, item) ==
    [i \in 1..(Len(h) + 1) |-> IF i <= q THEN h[i]
                               ELSE IF i = q + 1 THEN item
                               ELSE h[i - 1]]

\* a receive that waits for the Sender to be dropped, items buffered or not
RecvReturnsWhenClosed(id) ==
    IF id >= Len(chans) THEN TRUE ELSE closed[chans[id + 1]]

\* try_recv() in place of recv(): never waits
RecvReturnsAtOnce(id) == TRUE

\* crossbeam recv() on the channel at index id returns (it blocks while the
\* channel is empty and its Sender is alive); an index out of range panics at once
RecvReturns(id) ==
    IF id >= Len(chans) THEN TRUE
    ELSE queue[chans[id + 1]] # <<>> \/ closed[chans[id + 1]]

\* a recv() that fails as soon as the Sender is gone, buffered items or not
RecvOkUnlessClosed(p) == queue[p] # <<>> /\ ~closed[p]

\* recv() yields Ok(item) whenever an item is buffered, also after the Sender is gone
RecvOk(p) == queue[p] # <<>>

\* remove_channel(id), as the new <<chans, head_items>>
RemoveChannel(c, h, id) ==
    LET c2 == SwapRemove(c, id)
        old_id == Len(c2)
    IN  <<c2, Retag(h, old_id, id)>>

\* receive_from(id): every outcome, as the new chans, head_items and queue,
\* whether the call panicked, and the producer whose channel was read (None if none)
ReceiveFrom(c, h, q, id) ==
    IF id >= Len(c)
    THEN {[chans |-> c, head_items |-> h, queue |-> q, panic |-> TRUE, from |-> None]}
    ELSE LET p == c[id + 1] IN
         IF RecvOk(p)
         THEN LET item == [val |-> Head(q[p]), id |-> id, src |-> p]
                  q2 == [q EXCEPT ![p] = Tail(q[p])]
              IN  IF HasEqual(h, item)
                  THEN {[chans |-> c, head_items |-> h, queue |-> q2,
                         panic |-> TRUE, from |-> p]}
                  ELSE {[chans |-> c, head_items |-> InsertAt(h, ind, item),
                         queue |-> q2, panic |-> FALSE, from |-> p]
                        : ind \in InsertPositions(h, item)}
         ELSE LET r == RemoveChannel(c, h, id)
              IN  {[chans |-> r[1], head_items |-> r[2], queue |-> q,
                    panic |-> FALSE, from |-> p]}

\* ---------------------------------------------------------------- Init
Init ==
    /\ \E n \in 0..MaxProducers :
          /\ sent = [p \in 0..(n - 1) |-> <<>>]
          /\ closed = [p \in 0..(n - 1) |-> FALSE]
          /\ queue = [p \in 0..(n - 1) |-> <<>>]
          /\ chans = [i \in 1..n |-> i - 1]
          /\ pulled = [p \in 0..(n - 1) |-> 0]
    /\ head_items = <<>>
    /\ last_picked = NewLastPicked
    /\ pc = "idle"
    /\ fill_id = 0
    /\ fill_end = 0
    /\ out = <<>>
    /\ done = 0
    /\ calls = 0
    /\ pulls = 0
    /\ last_src = None

\* ------------------------------------------------------------ producers
\* a producer thread sends its next line, not smaller than its last one (the
\* contract on the input); send blocks while the channel is full
Send(p, v) ==
    /\ ~closed[p]
    /\ TotalLen(sent, Prods) < MaxItems
    /\ IF sent[p] = <<>> THEN TRUE ELSE sent[p][Len(sent[p])] <= v
    /\ Len(queue[p]) < ChanCap
    /\ queue' = [queue EXCEPT ![p] = Append(@, v)]
    /\ sent' = [sent EXCEPT ![p] = Append(@, v)]
    /\ UNCHANGED <<closed, mergerVars, historyVars>>

\* the producer's closure returns and its Sender is dropped
Close(p) ==
    /\ ~closed[p]
    /\ closed' = [closed EXCEPT ![p] = TRUE]
    /\ UNCHANGED <<sent, queue, mergerVars, historyVars>>

\* ------------------------------------------------------------- next()
\* get_next_head_item, after the receive step left chans c and head_items h
GetNextHeadItem(c, h) ==
    /\ chans' = c
    /\ pc' = "idle"
    /\ IF h = <<>>
       THEN /\ head_items' = h
            /\ done' = done + 1
            /\ UNCHANGED <<last_picked, out, last_src>>
       ELSE /\ head_items' = SubSeq(h, 1, Len(h) - 1)
            /\ last_picked' = h[Len(h)].id
            /\ out' = Append(out, h[Len(h)].val)
            /\ last_src' = h[Len(h)].src
            /\ UNCHANGED done

\* a panic unwinds out of next(): nothing is returned
Panic(r) ==
    /\ pc' = "panicked"
    /\ chans' = r.chans
    /\ head_items' = r.head_items
    /\ UNCHANGED <<last_picked, out, done, last_src>>

CountPull(r) ==
    /\ pulls' = IF r.from = None THEN pulls ELSE pulls + 1
    /\ pulled' = IF r.from = None THEN pulled
                 ELSE [pulled EXCEPT ![r.from] = @ + 1]

\* next() without its early return: on an empty chans it goes on to the
\* receive step (an empty loop and an empty pop when last_picked is None)
NextNoEarlyReturn ==
    /\ pc = "idle"
    /\ chans = <<>>
    /\ done < MaxDone
    /\ calls' = calls + 1
    /\ pulls' = 0
    /\ IF last_picked # None
       THEN pc' = "refill" /\ UNCHANGED done
       ELSE pc' = "idle" /\ done' = done + 1
    /\ UNCHANGED <<producerVars, queue, chans, head_items, last_picked,
                   fill_id, fill_end, out, pulled, last_src>>

\* next() on an empty chans: the early return of None
NextDone ==
    /\ pc = "idle"
    /\ chans = <<>>
    /\ done < MaxDone
    /\ done' = done + 1
    /\ calls' = calls + 1
    /\ pulls' = 0
    /\ UNCHANGED <<producerVars, queue, mergerVars, out, pulled, last_src>>

\* a next() that refills from every channel on every call
NextEnterFillAll ==
    /\ pc = "idle"
    /\ chans # <<>>
    /\ calls' = calls + 1
    /\ pulls' = 0
    /\ pc' = "fill" /\ fill_id' = 0 /\ fill_end' = Len(chans)
    /\ UNCHANGED <<producerVars, queue, chans, head_items, last_picked,
                   out, done, pulled, last_src>>

\* next() on a non-empty chans, up to its first recv()
NextEnter ==
    /\ pc = "idle"
    /\ chans # <<>>
    /\ calls' = calls + 1
    /\ pulls' = 0
    /\ IF last_picked # None
       THEN pc' = "refill" /\ UNCHANGED <<fill_id, fill_end>>
       ELSE pc' = "fill" /\ fill_id' = 0 /\ fill_end' = Len(chans)
    /\ UNCHANGED <<producerVars, queue, chans, head_items, last_picked,
                   out, done, pulled, last_src>>

\* one iteration of receive_from_all's loop; after the last one, the pop
FillStep ==
    /\ pc = "fill"
    /\ RecvReturns(fill_id)
    /\ \E r \in ReceiveFrom(chans, head_items, queue, fill_id) :
          /\ queue' = r.queue
          /\ CountPull(r)
          /\ IF r.panic
             THEN Panic(r) /\ UNCHANGED <<fill_id, fill_end>>
             ELSE IF fill_id + 1 < fill_end
             THEN /\ fill_id' = fill_id + 1
                  /\ chans' = r.chans
                  /\ head_items' = r.head_items
                  /\ UNCHANGED <<pc, fill_end, last_picked, out, done, last_src>>
             ELSE /\ GetNextHeadItem(r.chans, r.head_items)
                  /\ UNCHANGED <<fill_id, fill_end>>
    /\ UNCHANGED <<producerVars, calls>>

\* receive_from(last_picked) and the pop
RefillStep ==
    /\ pc = "refill"
    /\ RecvReturns(last_picked)
    /\ \E r \in ReceiveFrom(chans, head_items, queue, last_picked) :
          /\ queue' = r.queue
          /\ CountPull(r)
          /\ IF r.panic
             THEN Panic(r)
             ELSE GetNextHeadItem(r.chans, r.head_items)
    /\ UNCHANGED <<producerVars, calls, fill_id, fill_end>>

Next ==
    \/ \E p \in Prods, v \in Vals : Send(p, v)
    \/ \E p \in Prods : Close(p)
    \/ NextDone
    \/ NextEnter
    \/ FillStep
    \/ RefillStep

Spec == Init /\ [][Next]_vars

\* ------------------------------------------- the interleaving example
\* producer A (0) sends 10, 30, 50 and producer B (1) sends 20, 40
Script == <<<<10, 30, 50>>, <<20, 40>>>>

InitBlocking ==
    /\ sent = [p \in 0..1 |-> <<>>]
    /\ closed = [p \in 0..1 |-> FALSE]
    /\ queue = [p \in 0..1 |-> <<>>]
    /\ chans = <<0, 1>>
    /\ pulled = [p \in 0..1 |-> 0]
    /\ head_items = <<>>
    /\ last_picked = NewLastPicked
    /\ pc = "idle"
    /\ fill_id = 0
    /\ fill_end = 0
    /\ out = <<>>
    /\ done = 0
    /\ calls = 0
    /\ pulls = 0
    /\ last_src = None

\* the producer sends the next item of its script, whenever it gets to it
SendScript(p) ==
    /\ ~closed[p]
    /\ Len(sent[p]) < Len(Script[p + 1])
    /\ Len(queue[p]) < ChanCap
    /\ queue' = [queue EXCEPT ![p] = Append(@, Script[p + 1][Len(sent[p]) + 1])]
    /\ sent' = [sent EXCEPT ![p] = Append(@, Script[p + 1][Len(sent[p]) + 1])]
    /\ UNCHANGED <<closed, mergerVars, historyVars>>

CloseScript(p) ==
    /\ ~closed[p]
    /\ Len(sent[p]) = Len(Script[p + 1])
    /\ closed' = [closed EXCEPT ![p] = TRUE]
    /\ UNCHANGED <<sent, queue, mergerVars, historyVars>>

NextBlocking ==
    \/ \E p \in Prods : SendScript(p)
    \/ \E p \in Prods : CloseScript(p)
    \/ NextDone
    \/ NextEnter
    \/ FillStep
    \/ RefillStep

SpecBlocking == InitBlocking /\ [][NextBlocking]_vars

\* ------------------------------------------------------ the claims
\* the channel at Rust index id, or None when id is out of range
ChanAt(id) == IF id >= 0 /\ id < Len(chans) THEN chans[id + 1] ELSE None

\* the consumer is inside next(), in a recv() on producer p's channel that
\* cannot return yet
BlockedOn(p) ==
    \/ pc = "fill" /\ ChanAt(fill_id) = p /\ ~RecvReturns(fill_id)
    \/ pc = "refill" /\ ChanAt(last_picked) = p /\ ~RecvReturns(last_picked)

AllSent == BagOfSeqs(sent, Prods)

AllQueued == BagOfSeqs(queue, Prods)

\* C1 (sortedness): the values next() has returned so far are in
\* non-decreasing order, whatever sorted sequences the producers send.
C1_Sorted == IsSorted(out)

\* three values were returned, two of them equal and from different producers,
\* while a third producer sent nothing and closed
C1_Witness ==
    /\ Len(out) >= 3
    /\ out[1] = out[2]
    /\ out[2] < out[3]
    /\ \E p, q \in Prods : p # q /\ sent[p] # <<>> /\ sent[q] # <<>>
                          /\ sent[p][1] = sent[q][1]
    /\ \E p \in Prods : sent[p] = <<>> /\ closed[p]

\* C2 (completeness): every value sent is, at any moment, in its channel, in
\* head_items or already returned, exactly once; so when next() has returned
\* None the returned values are, as a multiset, exactly the values sent.
C2_Complete ==
    /\ SeqToBag(out) (+) SeqToBag(HeadVals(head_items)) (+) AllQueued = AllSent
    /\ done >= 1 => SeqToBag(out) = AllSent

\* None was returned after three values from two producers, one of which
\* retired while the other one's head was still buffered
C2_Witness ==
    /\ done >= 1
    /\ Len(out) >= 3
    /\ Cardinality(Prods) >= 2
    /\ \A p \in Prods : sent[p] # <<>>

\* C3 (no abort): no next() call ever panics.
C3_NeverAborts == pc # "panicked"

\* C4 (initial fill): while the first call's fill loop runs, every channel at
\* a position the loop has passed has been pulled; when the first call has
\* returned, every producer was pulled exactly once, the retired ones hold no
\* slot and each other one holds exactly one (the returned one counted).
C4_InitialFill ==
    /\ pc = "fill" =>
          \A j \in 1..Len(chans) : j <= fill_id => pulled[chans[j]] = 1
    /\ (calls = 1 /\ pc # "fill") =>
          /\ pc = "idle"
          /\ \A p \in Prods :
                /\ pulled[p] = 1
                /\ LET slots == Cardinality({i \in 1..Len(head_items) :
                                                head_items[i].src = p})
                                + (IF Len(out) = 1 /\ last_src = p THEN 1 ELSE 0)
                   IN  IF \E j \in 1..Len(chans) : chans[j] = p
                       THEN slots = 1
                       ELSE slots = 0

\* C5 (terminal DONE): once next() has returned None, every further step is a
\* next() call that returns None again, makes no pull and leaves chans,
\* head_items, last_picked and the channels as they are; no value is returned.
C5_DoneStable ==
    [][done >= 1 => /\ done' = done + 1
                    /\ out' = out
                    /\ pulls' = 0
                    /\ pulled' = pulled
                    /\ pc' = "idle"
                    /\ UNCHANGED <<chans, head_items, last_picked, queue>>]_vars

\* a second None was returned after some values
C5_Witness == done >= 2 /\ out # <<>> /\ last_picked # None

\* A has sent 10 and 30 and not yet 50, B has sent 20 and 40 and closed, and
\* the consumer waits in next() for A
WaitsForDelayed ==
    /\ BlockedOn(0)
    /\ sent[0] = <<10, 30>>
    /\ sent[1] = <<20, 40>>
    /\ closed[1]

\* C6 as stated (blocking order): the merger has returned 10, 20, 30 and 40
\* whenever it waits for A's delayed third item.
C6_AsStated == WaitsForDelayed => out = <<10, 20, 30, 40>>

\* C6 as amended: the merger has returned exactly 10, 20 and 30, from three
\* calls, whenever it waits for A's delayed third item (it waits in the fourth
\* call, which refills from A, the producer of 30, before it selects 40); and
\* when it has returned None it has returned 10, 20, 30, 40, 50.
C6_BlockingOrder ==
    /\ WaitsForDelayed => (out = <<10, 20, 30>> /\ calls = 4 /\ pc = "refill")
    /\ done >= 1 => out = <<10, 20, 30, 40, 50>>

C6_Witness == WaitsForDelayed /\ out = <<10, 20, 30>> /\ head_items # <<>>

\* C7 (attribution): every head slot's index is in range and names the channel
\* its value was received from; and between calls and in a refill the index
\* last_picked names the channel that supplied the last returned value.
C7_Attribution ==
    /\ \A i \in 1..Len(head_items) : ChanAt(head_items[i].id) = head_items[i].src
    /\ (last_picked # None /\ chans # <<>> /\ pc \in {"idle", "refill"})
          => ChanAt(last_picked) = last_src

\* producer 2's head, received in the initial fill under index 2, is buffered
\* under index 1 after producer 1 retired
C7_Witness ==
    /\ Cardinality(Prods) = 3
    /\ Len(chans) = 2
    /\ pulled[2] = 1
    /\ pulled[1] >= 2
    /\ \E i \in 1..Len(head_items) : head_items[i].src = 2 /\ head_items[i].id = 1

\* C8 (DONE only when no producer is active): when next() has returned None,
\* chans is empty, every producer has closed and no channel holds a value.
C8_DoneOnlyWhenEmpty ==
    done >= 1 => /\ chans = <<>>
                 /\ \A p \in Prods : closed[p] /\ queue[p] = <<>>

\* None was returned after two producers delivered values
C8_Witness ==
    /\ done = 1
    /\ Cardinality(Prods) >= 2
    /\ Len(out) >= 2
    /\ \A p \in Prods : pulled[p] >= 2

\* C9 (single producer): with one producer, the values returned so far are the
\* first ones it sent, in order, and when None has been returned they are all
\* it sent.
C9_SingleProducer ==
    Cardinality(Prods) = 1 =>
        /\ Len(out) <= Len(sent[0])
        /\ out = SubSeq(sent[0], 1, Len(out))
        /\ done >= 1 => out = sent[0]

\* the single producer's three values, not all equal, were returned, then None
C9_Witness ==
    /\ Cardinality(Prods) = 1
    /\ done >= 1
    /\ Len(out) >= 3
    /\ out[1] < out[3]

\* C10 (empty input): with zero producers every next() call returns None at
\* once: no pull is made, no value returned, last_picked stays None.
C10_EmptyInput ==
    Prods = {} => /\ last_picked = None
                  /\ out = <<>>
                  /\ pulls = 0
                  /\ pc = "idle"
                  /\ done = calls

\* the first call on a merger of zero producers has returned None
C10_Witness == Prods = {} /\ calls = 1 /\ done = 1

\* the channel indices the slots of h carry
SlotIds(h) == {h[i].id : i \in 1..Len(h)}

\* a next() call has just returned a value
ReturnedValue == pc = "idle" /\ calls >= 1 /\ done = 0

\* head_items as it was when that call selected: the popped slot put back
BeforePop ==
    Append(head_items, [val |-> out[Len(out)], id |-> last_picked, src |-> last_src])

\* C11 (lazy construction): until the first next() call nothing has been
\* pulled: head_items is empty, last_picked is None, chans is as given and
\* every channel holds everything its producer has sent.
C11_LazyNew ==
    calls = 0 => /\ head_items = <<>>
                 /\ last_picked = None
                 /\ pc = "idle"
                 /\ chans = [i \in 1..Cardinality(Prods) |-> i - 1]
                 /\ \A p \in Prods : queue[p] = sent[p] /\ pulled[p] = 0

\* before the first call one producer has sent two items and another has closed
C11_Witness ==
    /\ calls = 0
    /\ \E p \in Prods : Len(queue[p]) = 2
    /\ \E p \in Prods : closed[p] /\ queue[p] # <<>>

\* h is in strictly descending order of the pair (value, index)
CompositeSorted(h) == \A i \in 1..(Len(h) - 1) : TupleLess(h[i + 1], h[i])

\* C12 (ties by identifier): head_items is in strictly descending order of
\* the pair (value, index), between calls and when a call selects, so that the
\* slot popped from the back is, among the slots of the smallest value, the
\* one with the smallest index.
C12_CompositeOrder ==
    /\ CompositeSorted(head_items)
    /\ ReturnedValue =>
          /\ CompositeSorted(BeforePop)
          /\ \A i \in 1..Len(head_items) :
                head_items[i].val = out[Len(out)] => last_picked < head_items[i].id

\* C13 (order by value): head_items is non-increasing in value from front to
\* back, and the value a call has just returned is not greater than any value
\* still buffered.
C13_ValueOrder ==
    /\ \A i \in 1..(Len(head_items) - 1) : head_items[i].val >= head_items[i + 1].val
    /\ ReturnedValue =>
          \A i \in 1..Len(head_items) : out[Len(out)] <= head_items[i].val

\* a value was returned while a greater one stayed buffered in a slot whose
\* index was changed by a re-tag
C13_Witness ==
    /\ ReturnedValue
    /\ Len(out) >= 2
    /\ Len(head_items) = 1
    /\ head_items[1].val > out[Len(out)]
    /\ head_items[1].id # head_items[1].src

\* C14 (one slot per channel at selection): when a call selects, head_items
\* has as many slots as chans has channels and their indices are exactly
\* 0 .. chans.len()-1, each once; a call returns None from an empty head_items
\* and an empty chans.
C14_OneSlotPerChan ==
    /\ ReturnedValue =>
          /\ Len(BeforePop) = Len(chans)
          /\ SlotIds(BeforePop) = 0..(Len(chans) - 1)
    /\ (pc = "idle" /\ done >= 1) => (head_items = <<>> /\ chans = <<>>)

\* a call selected among three slots, after an earlier call had retired a channel
C14_Witness ==
    /\ ReturnedValue
    /\ Len(BeforePop) = 2
    /\ Cardinality(Prods) = 3
    /\ calls >= 3

\* C15 as stated (steady-state refill): every call made after some value has
\* been returned makes exactly one pull.
C15_AsStated == (pc = "idle" /\ calls >= 2 /\ out # <<>>) => pulls = 1

\* C15 as amended: a call made after some value has been returned and before
\* None has been returned never runs the fill loop; it makes exactly one
\* pull, on the channel at index last_picked, which is the channel that
\* supplied the last returned value, and leaves every other channel's content
\* as it is.  (A call made after None has been returned makes no pull.)
C15_RefillOnePull ==
    [][/\ (pc = "fill" => out = <<>>)'
       /\ ((pc = "idle" /\ calls >= 2 /\ out # <<>> /\ done <= 1) => pulls = 1)'
       /\ (pc = "refill" /\ pc' # "refill") =>
             /\ ChanAt(last_picked) = last_src
             /\ pulled' = [pulled EXCEPT ![last_src] = @ + 1]
             /\ \A p \in Prods \ {last_src} : queue'[p] = queue[p]]_vars

\* a refill call has made its one pull and returned a value while another
\* channel, pulled by the initial fill only, held an item
C15_Witness ==
    /\ ReturnedValue
    /\ calls >= 2
    /\ pulls = 1
    /\ \E p \in Prods : pulled[p] = 1 /\ queue[p] # <<>>

\* the index handed to remove_channel by the step being taken
RetiredId == IF pc = "fill" THEN fill_id ELSE last_picked

\* C16 (swap-with-last): a step that retires the channel at index id shrinks
\* chans by one, puts the channel that was last at index id (unless id was the
\* last index), leaves the other channels in place, keeps the number, the
\* order and the values of the head slots, and changes the index of no slot
\* but one tagged with the old last index, which becomes id.  (head_items
\* after the step is taken with the slot the step popped put back.)
C16_SwapWithLast ==
    [][Len(chans') # Len(chans) =>
         LET id == RetiredId
             last == Len(chans) - 1
             h2 == IF pc' = "idle" /\ done' = done
                   THEN Append(head_items', [val |-> out'[Len(out')],
                                             id |-> last_picked',
                                             src |-> last_src'])
                   ELSE head_items'
         IN  /\ Len(chans') = Len(chans) - 1
             /\ id < last => chans'[id + 1] = chans[last + 1]
             /\ \A j \in 1..Len(chans') : j # id + 1 => chans'[j] = chans[j]
             /\ Len(h2) = Len(head_items)
             /\ \A i \in 1..Len(head_items) :
                   /\ h2[i].val = head_items[i].val
                   /\ h2[i].src = head_items[i].src
                   /\ h2[i].id # head_items[i].id =>
                         (head_items[i].id = last /\ h2[i].id = id)
             /\ Cardinality({i \in 1..Len(head_items) :
                                h2[i].id # head_items[i].id}) <= 1
             /\ last \notin SlotIds(head_items) => h2 = head_items]_vars

\* channel 0 of three was retired: producer 2 took index 0 and its buffered
\* slot, received under index 2, carries index 0
C16_Witness ==
    /\ Cardinality(Prods) = 3
    /\ chans = <<2, 1>>
    /\ pulled[2] = 1
    /\ \E i \in 1..Len(head_items) : head_items[i].src = 2 /\ head_items[i].id = 0

\* the item the consumer's pending recv() would hand to sorted_insert
PendingItem ==
    LET id == IF pc = "fill" THEN fill_id ELSE last_picked
    IN  [val |-> Head(queue[ChanAt(id)]), id |-> id, src |-> ChanAt(id)]

HasPendingItem ==
    /\ pc \in {"fill", "refill"}
    /\ ChanAt(IF pc = "fill" THEN fill_id ELSE last_picked) # None
    /\ queue[ChanAt(IF pc = "fill" THEN fill_id ELSE last_picked)] # <<>>

\* C17 (unreachable arm): no item handed to sorted_insert equals a slot of
\* head_items as a (value, index) pair, the slots' indices are pairwise
\* different, and the only panic is the index out of range in the fill loop.
C17_NoDuplicate ==
    /\ HasPendingItem => ~HasEqual(head_items, PendingItem)
    /\ Cardinality(SlotIds(head_items)) = Len(head_items)
    /\ pc = "panicked" => (last_picked = None /\ fill_id >= Len(chans))

\* a refill is about to insert a value equal to a buffered one whose slot
\* was re-tagged by a retirement
C17_Witness ==
    /\ pc = "refill"
    /\ HasPendingItem
    /\ \E i \in 1..Len(head_items) : /\ head_items[i].val = PendingItem.val
                                     /\ head_items[i].id # head_items[i].src

\* the consumer, which keeps calling next(), can take a step
ConsumerStep == NextDone \/ NextEnter \/ FillStep \/ RefillStep

\* C18 (eventual DONE), as the final result: when every producer has closed
\* and the consumer can go no further, next() has returned None, after as
\* many values as were sent.
C18_EventualDone ==
    ((\A p \in Prods : closed[p]) /\ ~ENABLED ConsumerStep)
        => (done >= 1 /\ Len(out) = TotalLen(sent, Prods))

\* the consumer is inside next(), in a recv() that cannot return yet
ConsumerWaits ==
    \/ pc = "fill" /\ ~RecvReturns(fill_id)
    \/ pc = "refill" /\ ~RecvReturns(last_picked)

\* producer p is alive and its channel is full: its next send blocks
SendBlocked(p) == ~closed[p] /\ Len(queue[p]) >= ChanCap

\* C19 (no deadlock): whenever the consumer waits in next(), it waits on a
\* channel of chans that is empty and whose producer is alive, so that
\* producer's send does not block; the consumer and all live producers are
\* never blocked together.
C19_NoDeadlock ==
    ConsumerWaits =>
        /\ \E p \in Prods : BlockedOn(p)
        /\ \A p \in Prods : BlockedOn(p) =>
              (queue[p] = <<>> /\ ~closed[p] /\ ~SendBlocked(p))
        /\ \E p \in Prods : ~closed[p] /\ ~SendBlocked(p)

\* the consumer waits on one producer while another one's channel is full
C19_Witness ==
    /\ ConsumerWaits
    /\ \E p, q \in Prods : p # q /\ BlockedOn(p) /\ SendBlocked(q)

\* C20 (nothing stranded): whenever chans is empty, head_items is empty.
C20_NothingStranded == chans = <<>> => head_items = <<>>

\* three producers have all been retired, after three values were returned
C20_Witness ==
    /\ chans = <<>>
    /\ head_items = <<>>
    /\ Cardinality(Prods) = 3
    /\ Len(out) >= 3
    /\ pc = "idle"

====
